---- MODULE Spec2Model ----
(***************************************************************************)
(* Heat track generator: the geometry pipeline of src/main.py              *)
(* (HeatTrackGenerator) and the session registry and segment mutations of  *)
(* src/app.py.                                                             *)
(*                                                                         *)
(* Numbers.  The program computes in floating point; the model computes    *)
(* in integers on a lattice on which every quotient the code forms is      *)
(* exact: consecutive centerline points differ by a vector of length 0 or  *)
(* a multiple of 5, segment lengths are multiples of 5 and track widths    *)
(* multiples of 10.  np.linalg.norm is the integer square root, which is   *)
(* exact for consecutive-point differences and, being the floor of the     *)
(* real norm, compares with an integer threshold as the real norm does.    *)
(***************************************************************************)
EXTENDS Integers, Sequences, FiniteSets, TLC

\* ------------------------------------------------------------------ bounds

\* The longest centerline the sampler hands over (the code samples 1001
\* points; the model keeps the list's shape and bounds its length).
MaxPoints == 4

\* ------------------------------------------------------------ vectors

Vec(x, y) == <<x, y>>

Add(p, q) == <<p[1] + q[1], p[2] + q[2]>>

Sub(p, q) == <<p[1] - q[1], p[2] - q[2]>>

\* v * num / den, componentwise (num / den is a Python float in the code).
ScaleBy(v, num, den) == <<(v[1] * num) \div den, (v[2] * num) \div den>>

RECURSIVE ISqrtIn(_, _, _)
ISqrtIn(n, lo, hi) ==
    IF lo >= hi THEN lo
    ELSE LET mid == (lo + hi + 1) \div 2
         IN  IF mid <= n \div mid THEN ISqrtIn(n, mid, hi)
                                  ELSE ISqrtIn(n, lo, mid - 1)

\* np.linalg.norm of a 2-vector.
Norm(v) == LET n == v[1] * v[1] + v[2] * v[2] IN ISqrtIn(n, 0, n)

\* Python's optional dictionary key: absent, or present with a value.
Absent == <<>>

Present(v) == <<v>>

\* dict.get(key, default)
Get(opt, default) == IF opt = Absent THEN default ELSE opt[1]

\* ------------------------------------------------- HeatTrackGenerator

\* HeatTrackGenerator.__init__
NewGenerator(track_width, segment_length) ==
    [track_width        |-> track_width,
     segment_length     |-> segment_length,
     centerline_points  |-> <<>>,
     left_border_points |-> <<>>,
     right_border_points |-> <<>>,
     segment_divisions  |-> <<>>]

\* What a method call leaves behind: the object, and whether it raised.
Returned(self) == [raised |-> FALSE, self |-> self, fallback |-> FALSE]

Raised(self) == [raised |-> TRUE, self |-> self, fallback |-> FALSE]

\* ---------------------------------------------------------- Segmenter

RECURSIVE CumDist(_, _)
CumDist(points, i) ==
    IF i = 1 THEN 0
    ELSE CumDist(points, i - 1) + Norm(Sub(points[i], points[i - 1]))

\* The cumulative distances along the centerline (one entry per point).
Distances(points) == [i \in 1..Len(points) |-> CumDist(points, i)]

\* int(total_length / self.segment_length)
NumSegments(self) ==
    LET distances == Distances(self.centerline_points)
    IN  distances[Len(distances)] \div self.segment_length

\* The inner scan with a strict lower comparison.
FirstIntervalStrict(distances, target) ==
    LET hits == {j \in 1..(Len(distances) - 1) :
                    distances[j] < target /\ target <= distances[j + 1]}
    IN  IF hits = {} THEN 0
        ELSE CHOOSE j \in hits : \A k \in hits : j <= k

\* The inner scan with a strict upper comparison.
FirstIntervalHalfOpen(distances, target) ==
    LET hits == {j \in 1..(Len(distances) - 1) :
                    distances[j] <= target /\ target < distances[j + 1]}
    IN  IF hits = {} THEN 0
        ELSE CHOOSE j \in hits : \A k \in hits : j <= k

\* The inner scan: the first j with distances[j] <= target <= distances[j+1]
\* (1-based), or 0 when the scan ends without a hit.
FirstInterval(distances, target) ==
    LET hits == {j \in 1..(Len(distances) - 1) :
                    distances[j] <= target /\ target <= distances[j + 1]}
    IN  IF hits = {} THEN 0
        ELSE CHOOSE j \in hits : \A k \in hits : j <= k

\* A cut-line laid along the direction of travel.
AlongTrack(direction) == direction

\* np.array([-direction[1], direction[0]]): the direction turned by 90 degrees.
Perpendicular(direction) == Vec(-direction[2], direction[1])

\* One pass of the outer loop: the boundary appended for index i, as a list
\* of no or one segment.
Boundary(self, distances, i) ==
    LET points == self.centerline_points
        target_distance == i * self.segment_length
        j == FirstInterval(distances, target_distance)
    IN  IF j = 0 THEN <<>>
        ELSE
          LET p1 == points[j]
              p2 == points[j + 1]
              direction == Sub(p2, p1)
              direction_norm == Norm(direction)
          IN  IF direction_norm > 0
              THEN
                LET center_point ==
                        Add(p1, ScaleBy(direction, target_distance - distances[j],
                                        distances[j + 1] - distances[j]))
                    half_width == self.track_width \div 2
                    offset == ScaleBy(Perpendicular(direction),
                                      half_width, direction_norm)
                IN  << [segment_number |-> i,
                        center_point   |-> center_point,
                        line_start     |-> Sub(center_point, offset),
                        line_end       |-> Add(center_point, offset),
                        distance       |-> target_distance,
                        is_curve       |-> Absent,
                        speed_limit    |-> Absent] >>
              ELSE <<>>

\* The outer loop run over range(num_segments).
RangeShort(self) == NumSegments(self)

\* for i in range(num_segments + 1)
PlacementRange(self) == NumSegments(self) + 1

\* The boundaries placed before the trim.

Placement(self) ==
    LET distances == Distances(self.centerline_points)
        passes == [k \in 1..PlacementRange(self) |-> Boundary(self, distances, k - 1)]
        appended == SelectSeq(passes, LAMBDA b : b # <<>>)
    IN  [k \in 1..Len(appended) |-> appended[k][1]]

\* A trim that looks only at the number of boundaries.
TrimAlways(self, segment_divisions) == Len(segment_divisions) > 1

\* The closed-track test: whether the last boundary is removed.
TrimApplies(self, segment_divisions) ==
    LET points == self.centerline_points
        first_point == points[1]
        last_point == points[Len(points)]
        distance_to_start == Norm(Sub(last_point, first_point))
    IN  /\ Len(points) > 0
        /\ distance_to_start < self.track_width
        /\ Len(segment_divisions) > 1
        /\ Len(segment_divisions) >= 2
        /\ LET last_center == segment_divisions[Len(segment_divisions)].center_point
               first_center == segment_divisions[1].center_point
               segment_distance == Norm(Sub(last_center, first_center))
           IN  segment_distance < self.segment_length

Pop(list) == SubSeq(list, 1, Len(list) - 1)

\* The provisional numbers left as the placement loop set them.
KeepNumbers(segment_divisions) == segment_divisions

\* Re-number segments after potential removal.
Renumber(segment_divisions) ==
    [i \in 1..Len(segment_divisions) |->
        [segment_divisions[i] EXCEPT !.segment_number = i]]

\* HeatTrackGenerator.divide_track_into_segments; placed and removed are
\* the list after the placement loop and whether the pop ran.
divide_track_into_segments(self) ==
    IF self.centerline_points = <<>>
    THEN [raised |-> TRUE, self |-> self, placed |-> <<>>, removed |-> FALSE]
    ELSE
      LET placed == Placement(self)
          removed == TrimApplies(self, placed)
          kept == IF removed THEN Pop(placed) ELSE placed
      IN  [raised |-> FALSE,
           self |-> [self EXCEPT !.segment_divisions = Renumber(kept)],
           placed |-> placed,
           removed |-> removed]

\* ----------------------------------------------------- BorderOffsetter

\* A border point.  The fallback's point is current + unit(along) * by,
\* kept symbolic because unit(along) is irrational for most directions;
\* a point the offset library returns is a plain coordinate (by = 0).
BorderPoint(at, along, by) == [at |-> at, along |-> along, by |-> by]

Coordinate(p) == BorderPoint(p, Vec(0, 0), 0)

\* A direction estimate that looks only ahead of an interior point.
DirectionForward(points, i) ==
    IF i = Len(points) THEN Sub(points[i], points[i - 1])
    ELSE Sub(points[i + 1], points[i])

\* The direction vector the fallback estimates at index i (1-based).
Direction(points, i) ==
    IF i = 1 THEN Sub(points[i + 1], points[i])
    ELSE IF i = Len(points) THEN Sub(points[i], points[i - 1])
    ELSE Sub(points[i + 1], points[i - 1])

\* A fallback step that skips every point equal to a neighbouring point.
OffsetPairSkipDuplicates(points, i, offset_distance) ==
    LET current == points[i]
        direction == Direction(points, i)
        perpendicular == Vec(-direction[2], direction[1])
        repeated == \/ i > 1 /\ points[i] = points[i - 1]
                    \/ i < Len(points) /\ points[i] = points[i + 1]
    IN  IF ~repeated /\ Norm(direction) > 0
        THEN [left  |-> <<BorderPoint(current, perpendicular, offset_distance)>>,
              right |-> <<BorderPoint(current, perpendicular, -offset_distance)>>]
        ELSE [left |-> <<>>, right |-> <<>>]

\* The left and right border points the fallback emits for index i: none
\* when the direction has no length.
OffsetPair(points, i, offset_distance) ==
    LET current == points[i]
        direction == Direction(points, i)
        direction_norm == Norm(direction)
        perpendicular == Vec(-direction[2], direction[1])
    IN  IF direction_norm > 0
        THEN [left  |-> <<BorderPoint(current, perpendicular, offset_distance)>>,
              right |-> <<BorderPoint(current, perpendicular, -offset_distance)>>]
        ELSE [left |-> <<>>, right |-> <<>>]

RECURSIVE OffsetLoop(_, _, _, _)
OffsetLoop(points, i, offset_distance, side) ==
    IF i > Len(points) THEN <<>>
    ELSE OffsetPair(points, i, offset_distance)[side]
            \o OffsetLoop(points, i + 1, offset_distance, side)

\* HeatTrackGenerator._manual_offset_calculation.  With a single point the
\* first pass reads centerline_points[1] and raises IndexError.
_manual_offset_calculation(self, offset_distance) ==
    LET points == self.centerline_points
    IN  IF Len(points) = 1 THEN Raised(self)
        ELSE Returned([self EXCEPT
                !.left_border_points = OffsetLoop(points, 1, offset_distance, "left"),
                !.right_border_points = OffsetLoop(points, 1, offset_distance, "right")])

RECURSIVE Concat(_)
Concat(lists) ==
    IF lists = <<>> THEN <<>> ELSE Head(lists) \o Concat(Tail(lists))

\* list(offset.coords), or the pieces of a MultiLineString one after another.
Coords(offset) ==
    IF offset.has_coords THEN Head(offset.geoms) ELSE Concat(offset.geoms)

\* A LineString constructor that takes any list.
LineStringAccepts(points) == FALSE

\* LineString(self.centerline_points): shapely refuses a single coordinate.

LineStringRaises(points) == Len(points) = 1

\* An except clause that lets the error through.
Reraise(self, offset_distance) == Raised(self)

\* The except clause: every error of the primary step leads to the fallback.

OnPrimaryError(self, offset_distance) ==
    [_manual_offset_calculation(self, offset_distance) EXCEPT !.fallback = TRUE]

\* HeatTrackGenerator.generate_track_borders.  primary is what shapely's
\* parallel_offset does on this call: it raises, or returns two geometries.
generate_track_borders(self, primary) ==
    IF self.centerline_points = <<>> THEN Raised(self)
    ELSE IF LineStringRaises(self.centerline_points) THEN Raised(self)
    ELSE
      LET offset_distance == self.track_width \div 2
      IN  IF primary.raises
          THEN OnPrimaryError(self, offset_distance)
          ELSE Returned([self EXCEPT
                  !.left_border_points = Coords(primary.left),
                  !.right_border_points = Coords(primary.right)])

\* -------------------------------------------------------------- inputs

Origin == Vec(0, 0)

\* The vectors between consecutive samples: a repeated sample, three axis
\* directions and one oblique direction, each of length 0 or 10.
Steps == {Vec(0, 0), Vec(10, 0), Vec(-10, 0), Vec(0, 10), Vec(6, 8)}

RECURSIVE Paths(_)
Paths(n) ==
    IF n = 1 THEN {<<Origin>>}
    ELSE {Append(p, Add(p[Len(p)], s)) : p \in Paths(n - 1), s \in Steps}

\* A closed rectangular loop of length 1480 (400 by 340).
ClosedLoop1480 ==
    <<Vec(0, 0), Vec(400, 0), Vec(400, 340), Vec(0, 340), Vec(0, 0)>>

\* A path that starts with a repeated sample, runs out and turns back.
RepeatedStartLoop ==
    <<Vec(0, 0), Vec(0, 0), Vec(10, 0), Vec(20, 0), Vec(10, 0)>>

\* Straight lines from the origin, given by a vector of length 5 along them.
LineDirections == {Vec(5, 0), Vec(3, 4)}

\* The arc positions at which a straight line of length 800 is sampled:
\* its two ends only, evenly in 2 and in 4 steps, and unevenly.
LineSamplings ==
    {<<0, 800>>, <<0, 400, 800>>, <<0, 200, 400, 600, 800>>,
     <<0, 300, 800>>, <<0, 395, 405, 800>>}

\* The open straight lines of length 800, sampled.
StraightLines800 ==
    {[i \in 1..Len(marks) |-> ScaleBy(along, marks[i], 5)] :
        along \in LineDirections, marks \in LineSamplings}

\* What parse_svg_centerline can sample from a file.
Centerlines ==
    UNION {Paths(n) : n \in 1..MaxPoints}
        \cup {ClosedLoop1480, RepeatedStartLoop} \cup StraightLines800

\* (track_width, segment_length) pairs the constructor is called with; the
\* last is the command line's default.
Parameters == ({10, 20} \X {10, 15}) \cup {<<200, 400>>}

\* Geometries shapely's parallel_offset may return: a LineString (it has
\* coords), possibly empty, or a MultiLineString of pieces.
NoGeometry == [has_coords |-> TRUE, geoms |-> << <<>> >>]

Geometries ==
    { [has_coords |-> TRUE,  geoms |-> << <<Coordinate(Vec(0, 5)), Coordinate(Vec(10, 5))>> >>],
      [has_coords |-> FALSE, geoms |-> << <<Coordinate(Vec(0, 5))>>, <<Coordinate(Vec(10, 5))>> >>] }

PrimaryOutcomes ==
    {[raises |-> TRUE, left |-> NoGeometry, right |-> NoGeometry]}
    \cup {[raises |-> FALSE, left |-> g, right |-> g] : g \in Geometries}

\* --------------------------------------------------------------- state

VARIABLES
    generator,         \* main(): the HeatTrackGenerator object
    outcome,           \* main(): the last method called on it, whether it raised,
                       \* and whether it ran the manual offset calculation
    placed,            \* divide_track_into_segments: the list after the placement loop
    removed,           \* divide_track_into_segments: whether the last boundary was popped
    track_generators,  \* app.py: session id -> HeatTrackGenerator
    upload_folder,     \* app.py: the files saved under uploads/
    last_track,        \* app.py: the content of last_track_data.json
    uploads            \* the clients: for each upload they follow up, the response
                       \* it was given and the generate request made with it

vars ==
    <<generator, outcome, placed, removed, track_generators, upload_folder, last_track,
      uploads>>

appVars == <<track_generators, upload_folder, last_track, uploads>>

mainVars == <<generator, outcome, placed, removed>>

NoTrack == [filename |-> "", session_id |-> -1, track_data |-> <<>>]

\* The module-level state of app.py at start-up.
AppStart ==
    /\ track_generators = <<>>
    /\ upload_folder = {}
    /\ last_track = NoTrack
    /\ uploads = <<>>

\* ------------------------------------------------- main.py: the driver

\* generator = HeatTrackGenerator(track_width=..., segment_length=...)
Init ==
    /\ \E ps \in Parameters : generator = NewGenerator(ps[1], ps[2])
    /\ outcome = [op |-> "__init__", raised |-> FALSE, fallback |-> FALSE]
    /\ placed = <<>>
    /\ removed = FALSE
    /\ AppStart

\* generator.parse_svg_centerline(svg_file): the file has no path and the
\* call raises, or the first path is sampled.  Both drivers call it once,
\* on a fresh generator.
ParseSvgCenterline ==
    /\ generator.centerline_points = <<>>
    /\ outcome.op = "__init__"
    /\ \/ /\ outcome' = [op |-> "parse_svg_centerline", raised |-> TRUE, fallback |-> FALSE]
          /\ UNCHANGED generator
       \/ \E points \in Centerlines :
            /\ generator' = [generator EXCEPT !.centerline_points = points]
            /\ outcome' = [op |-> "parse_svg_centerline", raised |-> FALSE, fallback |-> FALSE]
    /\ UNCHANGED <<placed, removed>>
    /\ UNCHANGED appVars

\* generator.generate_track_borders()
GenerateTrackBorders ==
    /\ \E primary \in PrimaryOutcomes :
          LET r == generate_track_borders(generator, primary)
          IN  /\ generator' = r.self
              /\ outcome' = [op |-> "generate_track_borders", raised |-> r.raised,
                             fallback |-> r.fallback]
    /\ UNCHANGED <<placed, removed>>
    /\ UNCHANGED appVars

\* generator.divide_track_into_segments()
DivideTrackIntoSegments ==
    /\ LET r == divide_track_into_segments(generator)
       IN  /\ generator' = r.self
           /\ outcome' = [op |-> "divide_track_into_segments", raised |-> r.raised,
                             fallback |-> FALSE]
           /\ placed' = r.placed
           /\ removed' = r.removed
    /\ UNCHANGED appVars

Next ==
    \/ ParseSvgCenterline
    \/ GenerateTrackBorders
    \/ DivideTrackIntoSegments

Spec == Init /\ [][Next]_vars

\* ------------------------------------------------ claims: the Segmenter

SegmenterCalled == outcome.op = "divide_track_into_segments"

SegmenterReturned == SegmenterCalled /\ ~outcome.raised

BordersCalled == outcome.op = "generate_track_borders"

TotalLength(points) == Distances(points)[Len(points)]

DistSq(p, q) == (p[1] - q[1]) * (p[1] - q[1]) + (p[2] - q[2]) * (p[2] - q[2])

\* C1: the segment numbers of the returned list are exactly 1..count, in
\* list order, whether or not a boundary was skipped or trimmed.
C1_NumbersContiguous ==
    \A i \in 1..Len(generator.segment_divisions) :
        generator.segment_divisions[i].segment_number = i

\* C1 witness: a returned list of two segments after the boundary at
\* distance 0 was skipped and the last boundary was trimmed.
C1_Witness ==
    /\ SegmenterReturned
    /\ removed
    /\ Len(placed) < NumSegments(generator) + 1
    /\ Len(generator.segment_divisions) >= 2

\* C2 as stated: with at least 2 points, exactly floor(L/S) + 1 boundaries
\* are placed before the trim, repeated samples or not.
C2_Original ==
    (SegmenterReturned /\ Len(generator.centerline_points) >= 2)
        => Len(placed) = TotalLength(generator.centerline_points)
                             \div generator.segment_length + 1

\* C2 amended: with at least 2 points, the boundaries placed before the trim
\* are those at k * S for k in 0..floor(L/S), except that the boundary for
\* k = 0 is skipped when the first two points coincide: floor(L/S) + 1
\* boundaries when the first two points differ, floor(L/S) when they are equal.
C2_PlacedCount ==
    (SegmenterReturned /\ Len(generator.centerline_points) >= 2)
        => LET points == generator.centerline_points
               n == TotalLength(points) \div generator.segment_length
               skipped == IF points[1] = points[2] THEN 1 ELSE 0
           IN  /\ Len(placed) = n + 1 - skipped
               /\ \A i \in 1..Len(placed) :
                     /\ placed[i].distance = (i - 1 + skipped) * generator.segment_length
                     /\ placed[i].segment_number = i - 1 + skipped

\* C2 witness: a centerline that starts with a repeated sample and has a
\* repeated sample further on, with boundaries placed.
C2_Witness ==
    /\ SegmenterReturned
    /\ Len(generator.centerline_points) >= 4
    /\ generator.centerline_points[1] = generator.centerline_points[2]
    /\ generator.centerline_points[3] = generator.centerline_points[4]
    /\ Len(placed) >= 1

\* C3 as stated: when num_segments is 0 the returned list is empty and no
\* error is raised.
C3_Original ==
    (SegmenterCalled /\ Len(generator.centerline_points) >= 1
         /\ NumSegments(generator) = 0)
        => (~outcome.raised /\ generator.segment_divisions = <<>>)

\* C3 amended: when num_segments is 0 no error is raised, nothing is
\* trimmed, and the list holds the single boundary at distance 0 (numbered
\* 1, at the first point) when the first two points differ; it is empty
\* when the centerline is one point or starts with a repeated sample.
C3_ZeroSegments ==
    (SegmenterCalled /\ Len(generator.centerline_points) >= 1
         /\ NumSegments(generator) = 0)
        => LET points == generator.centerline_points
               segs == generator.segment_divisions
           IN  /\ ~outcome.raised
               /\ ~removed
               /\ IF Len(points) >= 2 /\ points[1] # points[2]
                  THEN /\ Len(segs) = 1
                       /\ segs[1].segment_number = 1
                       /\ segs[1].distance = 0
                       /\ segs[1].center_point = points[1]
                  ELSE segs = <<>>

\* C3 witness: a track shorter than one segment length for which one
\* segment is returned.
C3_Witness ==
    /\ SegmenterReturned
    /\ NumSegments(generator) = 0
    /\ TotalLength(generator.centerline_points) > 0
    /\ Len(generator.segment_divisions) = 1

\* The three conditions of the closed-loop trim, on squared distances.
ClosedTrimCondition ==
    LET points == generator.centerline_points
    IN  /\ DistSq(points[Len(points)], points[1])
              < generator.track_width * generator.track_width
        /\ Len(placed) >= 2
        /\ DistSq(placed[Len(placed)].center_point, placed[1].center_point)
              < generator.segment_length * generator.segment_length

\* C4: the trim removes the last placed boundary exactly when the end is
\* within track_width of the start, at least 2 boundaries were placed and
\* the last and first centers are within segment_length; otherwise nothing
\* is removed, and never more than one boundary.  The closed loop of length
\* 1480 with width 200 and segment length 400 has 4 boundaries placed and 3
\* returned, numbered 1..3.
C4_ClosedLoopTrim ==
    SegmenterReturned
        => LET segs == generator.segment_divisions
           IN  /\ removed <=> ClosedTrimCondition
               /\ Len(segs) = IF removed THEN Len(placed) - 1 ELSE Len(placed)
               /\ \A i \in 1..Len(segs) :
                     /\ segs[i].center_point = placed[i].center_point
                     /\ segs[i].distance = placed[i].distance
               /\ (/\ generator.centerline_points = ClosedLoop1480
                   /\ generator.track_width = 200
                   /\ generator.segment_length = 400)
                    => (/\ Len(placed) = 4
                        /\ Len(segs) = 3
                        /\ \A i \in 1..3 : segs[i].segment_number = i)

\* C4 witness: the closed loop of length 1480 segmented with the default
\* width and segment length, its last boundary removed.
C4_Witness ==
    /\ SegmenterReturned
    /\ generator.centerline_points = ClosedLoop1480
    /\ generator.track_width = 200
    /\ generator.segment_length = 400
    /\ removed

\* ------------------------------------------ claims: degenerate centerlines

DistinctPoints(points) == {points[i] : i \in 1..Len(points)}

\* C5 as stated: the Segmenter and the BorderOffsetter both raise whenever
\* the centerline has fewer than 2 distinct points.
C5_Original ==
    ((SegmenterCalled \/ BordersCalled)
         /\ Cardinality(DistinctPoints(generator.centerline_points)) < 2)
        => outcome.raised

\* C5 amended: the Segmenter raises exactly when the centerline is empty (for
\* a centerline of one point, or of total length 0, it returns an empty
\* list); the BorderOffsetter raises exactly when the centerline has fewer
\* than 2 points (repeated points count).  A call that raised leaves the
\* segment list and the border curves empty.
C5_DegenerateCenterline ==
    LET points == generator.centerline_points
    IN  /\ SegmenterCalled =>
            /\ outcome.raised <=> (points = <<>>)
            /\ (Len(points) >= 1 /\ TotalLength(points) = 0)
                  => generator.segment_divisions = <<>>
        /\ BordersCalled => (outcome.raised <=> Len(points) < 2)
        /\ ((SegmenterCalled \/ BordersCalled) /\ outcome.raised) =>
            /\ SegmenterCalled => generator.segment_divisions = <<>>
            /\ BordersCalled =>
                  /\ generator.left_border_points = <<>>
                  /\ generator.right_border_points = <<>>

\* C5 witness: the BorderOffsetter raised on a centerline of one point
\* after the Segmenter had returned for it.
C5_Witness ==
    /\ BordersCalled
    /\ outcome.raised
    /\ Len(generator.centerline_points) = 1
    /\ placed = <<>>

\* C6: with at least 2 centerline points generate_track_borders returns
\* without raising, whether the primary offset succeeded or raised and the
\* fallback ran.
C6_BordersNeverRaise ==
    (BordersCalled /\ Len(generator.centerline_points) >= 2)
        => /\ ~outcome.raised
           /\ Len(generator.left_border_points) = Len(generator.right_border_points)

\* C6 witness: the primary offset raised on a centerline with a repeated
\* sample, and the fallback returned border curves.
C6_Witness ==
    /\ BordersCalled
    /\ outcome.fallback
    /\ ~outcome.raised
    /\ \E i \in 1..(Len(generator.centerline_points) - 1) :
          generator.centerline_points[i] = generator.centerline_points[i + 1]
    /\ generator.left_border_points # <<>>

\* ------------------------------------------------- app.py: the handlers

\* The most session ids held at once ("session_0", "session_1", ... are
\* modelled by their numbers).
MaxSessions == 1

\* The longest list of segment updates one update_segments request carries.
MaxUpdates == 1

SessionIds == 0..(MaxSessions - 1)

\* The uploaded files: one whose path samples to a straight line and whose
\* parallel offset succeeds, and one that holds no path.
FileNames == {"track.svg", "empty.svg"}

FileSamples(filename) ==
    IF filename = "track.svg" THEN <<Vec(0, 0), Vec(10, 0)>> ELSE <<>>

FilePrimary(filename) ==
    [raises |-> FALSE,
     left  |-> [has_coords |-> TRUE,
                geoms |-> << <<Coordinate(Vec(0, 10)), Coordinate(Vec(10, 10))>> >>],
     right |-> [has_coords |-> TRUE,
                geoms |-> << <<Coordinate(Vec(0, -10)), Coordinate(Vec(10, -10))>> >>]]

\* track_width and segment_length of a generate request.
RequestWidths == {20}

RequestSegmentLengths == {10, 15, 25}

\* start_segment and end_segment of a mark_curve request, and the id of a
\* segment update: the numbers of the two segments of the track cut at 10;
\* cut at 15 or 25 it has one segment, and 2 is a number no segment has.
RequestNumbers == 1..2

RequestSpeedLimits == {3, 5}

\* The position of a segment update.
RequestPositions == {Vec(5, 5)}

\* A segment update without an 'id' key.
Malformed == [id |-> -1, position |-> Vec(0, 0), keys |-> FALSE]

SegmentUpdates ==
    {[id |-> n, position |-> p, keys |-> TRUE] :
        n \in RequestNumbers, p \in RequestPositions} \cup {Malformed}

RECURSIVE ListsUpTo(_, _)
ListsUpTo(S, n) ==
    IF n = 0 THEN {<<>>}
    ELSE ListsUpTo(S, n - 1)
            \cup {Append(l, x) : l \in {m \in ListsUpTo(S, n - 1) : Len(m) = n - 1}, x \in S}

\* track_generators[session_id] = generator
Put(registry, session_id, gen) ==
    [h \in DOMAIN registry \cup {session_id} |->
        IF h = session_id THEN gen ELSE registry[h]]

\* generate_track's three calls on a fresh generator.
Pipeline(filename, track_width, segment_length) ==
    LET fresh == NewGenerator(track_width, segment_length)
        points == FileSamples(filename)
    IN  IF points = <<>> THEN Raised(fresh)
        ELSE
          LET parsed == [fresh EXCEPT !.centerline_points = points]
              borders == generate_track_borders(parsed, FilePrimary(filename))
          IN  IF borders.raised THEN Raised(parsed)
              ELSE
                LET divided == divide_track_into_segments(borders.self)
                IN  IF divided.raised THEN Raised(borders.self)
                    ELSE Returned(divided.self)

\* A mark that flips is_curve instead of setting it.
MarkToggle(segment, start_segment, end_segment, speed_limit) ==
    IF start_segment <= segment.segment_number
          /\ segment.segment_number <= end_segment
    THEN [segment EXCEPT !.is_curve = Present(~Get(segment.is_curve, FALSE)),
                         !.speed_limit = Present(speed_limit)]
    ELSE [segment EXCEPT !.is_curve = Present(Get(segment.is_curve, FALSE))]

\* A mark over the half-open range start <= number < end.
MarkHalfOpen(segment, start_segment, end_segment, speed_limit) ==
    IF start_segment <= segment.segment_number
          /\ segment.segment_number < end_segment
    THEN [segment EXCEPT !.is_curve = Present(TRUE),
                         !.speed_limit = Present(speed_limit)]
    ELSE [segment EXCEPT !.is_curve = Present(Get(segment.is_curve, FALSE))]

\* A mark whose else branch resets is_curve.
MarkReset(segment, start_segment, end_segment, speed_limit) ==
    IF start_segment <= segment.segment_number
          /\ segment.segment_number <= end_segment
    THEN [segment EXCEPT !.is_curve = Present(TRUE),
                         !.speed_limit = Present(speed_limit)]
    ELSE [segment EXCEPT !.is_curve = Present(FALSE)]

\* mark_curve's loop body, on one segment.
MarkSegment(segment, start_segment, end_segment, speed_limit) ==
    IF start_segment <= segment.segment_number
          /\ segment.segment_number <= end_segment
    THEN [segment EXCEPT !.is_curve = Present(TRUE),
                         !.speed_limit = Present(speed_limit)]
    ELSE [segment EXCEPT !.is_curve = Present(Get(segment.is_curve, FALSE))]

\* mark_curve's loop over generator.segment_divisions.
MarkCurve(segment_divisions, start_segment, end_segment, speed_limit) ==
    [i \in 1..Len(segment_divisions) |->
        MarkSegment(segment_divisions[i], start_segment, end_segment, speed_limit)]

\* A reposition that carries the cut-line along with the center.
RepositionWithLine(segment, new_position) ==
    LET shift == Sub(new_position, segment.center_point)
    IN  [segment EXCEPT !.center_point = new_position,
                        !.line_start = Add(segment.line_start, shift),
                        !.line_end = Add(segment.line_end, shift)]

\* segment['center_point'] = new_position
MoveCenter(segment, new_position) ==
    [segment EXCEPT !.center_point = new_position]

\* update_segments' inner loop: the first segment with the id is moved.
Reposition(segment_divisions, segment_id, new_position) ==
    LET hits == {i \in 1..Len(segment_divisions) :
                    segment_divisions[i].segment_number = segment_id}
    IN  IF hits = {} THEN segment_divisions
        ELSE LET first == CHOOSE i \in hits : \A k \in hits : i <= k
             IN  [segment_divisions EXCEPT ![first] = MoveCenter(@, new_position)]

\* update_segments' outer loop; an update without its keys raises and ends
\* the loop, the updates before it staying applied.
RECURSIVE ApplyUpdates(_, _)
ApplyUpdates(segment_divisions, updates) ==
    IF updates = <<>> THEN segment_divisions
    ELSE IF ~Head(updates).keys THEN segment_divisions
    ELSE ApplyUpdates(Reposition(segment_divisions, Head(updates).id,
                                 Head(updates).position),
                      Tail(updates))

\* The registry after mark_curve(session_id, ...): an unknown session is
\* answered with an error and changes nothing.
mark_curve(registry, session_id, start_segment, end_segment, speed_limit) ==
    IF session_id \notin DOMAIN registry THEN registry
    ELSE [registry EXCEPT ![session_id].segment_divisions =
            MarkCurve(@, start_segment, end_segment, speed_limit)]

\* The registry after update_segments(session_id, segments).
update_segments(registry, session_id, segments) ==
    IF session_id \notin DOMAIN registry THEN registry
    ELSE [registry EXCEPT ![session_id].segment_divisions = ApplyUpdates(@, segments)]

\* The state of main()'s generator while the web application runs.
AppInit ==
    /\ generator = NewGenerator(200, 400)
    /\ outcome = [op |-> "__init__", raised |-> FALSE, fallback |-> FALSE]
    /\ placed = <<>>
    /\ removed = FALSE
    /\ AppStart

\* POST /api/upload: the file is refused, or saved under uploads/.
UploadSvg ==
    /\ \/ UNCHANGED upload_folder
       \/ \E filename \in FileNames : upload_folder' = upload_folder \cup {filename}
    /\ UNCHANGED <<track_generators, last_track, uploads>>
    /\ UNCHANGED mainVars

\* generate_track's effect on the application's state: nothing when the
\* file is missing or a stage raises, else the track is stored under the
\* request's session id and saved as the last track.
generate_track(session_id, filename, track_width, segment_length) ==
    /\ IF filename \notin upload_folder
       THEN UNCHANGED <<track_generators, last_track>>
       ELSE LET r == Pipeline(filename, track_width, segment_length)
            IN  IF r.raised
                THEN UNCHANGED <<track_generators, last_track>>
                ELSE /\ track_generators' = Put(track_generators, session_id, r.self)
                     /\ last_track' = [filename |-> filename,
                                       session_id |-> session_id,
                                       track_data |-> r.self]
    /\ UNCHANGED upload_folder
    /\ UNCHANGED mainVars

\* POST /api/generate
GenerateTrack(session_id, filename, track_width, segment_length) ==
    /\ generate_track(session_id, filename, track_width, segment_length)
    /\ UNCHANGED uploads

\* POST /api/update_segments
UpdateSegmentsRequest(session_id, segments) ==
    /\ track_generators' = update_segments(track_generators, session_id, segments)
    /\ UNCHANGED <<upload_folder, last_track, uploads>>
    /\ UNCHANGED mainVars

\* POST /api/mark_curve
MarkCurveRequest(session_id, start_segment, end_segment, speed_limit) ==
    /\ track_generators' =
          mark_curve(track_generators, session_id, start_segment, end_segment, speed_limit)
    /\ UNCHANGED <<upload_folder, last_track, uploads>>
    /\ UNCHANGED mainVars

\* A request whose arguments do not parse (int(None), a missing list) is
\* answered with an error.
BadRequest == UNCHANGED vars

AppNext ==
    \/ UploadSvg
    \/ \E session_id \in SessionIds, filename \in FileNames,
          track_width \in RequestWidths, segment_length \in RequestSegmentLengths :
            GenerateTrack(session_id, filename, track_width, segment_length)
    \/ \E session_id \in SessionIds, segments \in ListsUpTo(SegmentUpdates, MaxUpdates) :
            UpdateSegmentsRequest(session_id, segments)
    \/ \E session_id \in SessionIds, start_segment \in RequestNumbers,
          end_segment \in RequestNumbers, speed_limit \in RequestSpeedLimits :
            MarkCurveRequest(session_id, start_segment, end_segment, speed_limit)
    \/ BadRequest

AppSpec == AppInit /\ [][AppNext]_vars

\* ------------------------------------- app.py: uploads and their handles

\* The most uploads whose responses the clients follow up.
MaxUploads == 2

\* session_id = f"session_{len(track_generators)}"
SessionHandle(registry) == Cardinality(DOMAIN registry)

\* POST /api/upload of a file that is accepted: it is saved, and the response
\* carries a session id and the file's name, which the client keeps.
UploadAccepted(filename) ==
    /\ Len(uploads) < MaxUploads
    /\ upload_folder' = upload_folder \cup {filename}
    /\ uploads' = Append(uploads, [filename |-> filename,
                                   session_id |-> SessionHandle(track_generators),
                                   generated |-> Absent])
    /\ UNCHANGED <<track_generators, last_track>>
    /\ UNCHANGED mainVars

\* POST /api/generate by the client of upload k, with the session id and
\* the file name of that upload's response; the client notes the parameters
\* of a request that succeeded.
GenerateFor(k, track_width, segment_length) ==
    /\ k \in DOMAIN uploads
    /\ generate_track(uploads[k].session_id, uploads[k].filename,
                      track_width, segment_length)
    /\ uploads' =
          IF Pipeline(uploads[k].filename, track_width, segment_length).raised
          THEN uploads
          ELSE [uploads EXCEPT ![k].generated =
                    Present([track_width |-> track_width,
                             segment_length |-> segment_length])]

\* POST /api/mark_curve by the client of upload k, with its session id.
MarkCurveFor(k, start_segment, end_segment, speed_limit) ==
    /\ k \in DOMAIN uploads
    /\ track_generators' =
          mark_curve(track_generators, uploads[k].session_id,
                     start_segment, end_segment, speed_limit)
    /\ UNCHANGED <<upload_folder, last_track, uploads>>
    /\ UNCHANGED mainVars

SessionNext ==
    \/ \E filename \in FileNames : UploadAccepted(filename)
    \/ \E k \in 1..MaxUploads, track_width \in RequestWidths,
          segment_length \in RequestSegmentLengths :
            GenerateFor(k, track_width, segment_length)
    \/ \E k \in 1..MaxUploads, start_segment \in RequestNumbers,
          end_segment \in RequestNumbers, speed_limit \in RequestSpeedLimits :
            MarkCurveFor(k, start_segment, end_segment, speed_limit)

SessionSpec == AppInit /\ [][SessionNext]_vars

\* -------------------------------------------- claims: the two mutations

\* The segment lists held by the registry.
StoredSegments == {track_generators[h].segment_divisions : h \in DOMAIN track_generators}

MarkCalls == RequestNumbers \X RequestNumbers \X RequestSpeedLimits

RepositionCalls == RequestNumbers \X {Vec(5, 5), Vec(0, 5)}

Marked(segs, call) == MarkCurve(segs, call[1], call[2], call[3])

Moved(segs, call) == Reposition(segs, call[1], call[2])

\* C7: Mark-curve applied twice in a row with the same arguments leaves the
\* registry as applying it once does.
C7_MarkCurveIdempotent ==
    \A session_id \in SessionIds, call \in MarkCalls :
        LET once == mark_curve(track_generators, session_id, call[1], call[2], call[3])
        IN  mark_curve(once, session_id, call[1], call[2], call[3]) = once

\* C7 witness: a stored track on which Mark-curve has acted, one segment
\* marked and another not.
C7_Witness ==
    \E segs \in StoredSegments :
        \E i, j \in 1..Len(segs) :
            /\ segs[i].is_curve = Present(TRUE)
            /\ segs[j].is_curve = Present(FALSE)

\* C8 as stated: any two Mark-curve calls, and any two Reposition calls,
\* give the same segment sequence in either order.
C8_Original ==
    \A segs \in StoredSegments :
        /\ \A c1, c2 \in MarkCalls :
              Marked(Marked(segs, c1), c2) = Marked(Marked(segs, c2), c1)
        /\ \A r1, r2 \in RepositionCalls :
              Moved(Moved(segs, r1), r2) = Moved(Moved(segs, r2), r1)

\* Some segment's number lies in the ranges of both Mark-curve calls.
RangesShareSegment(segs, c1, c2) ==
    \E i \in 1..Len(segs) :
        /\ c1[1] <= segs[i].segment_number /\ segs[i].segment_number <= c1[2]
        /\ c2[1] <= segs[i].segment_number /\ segs[i].segment_number <= c2[2]

\* C8 amended: two Mark-curve calls give the same segment sequence in
\* either order exactly when their speed limits are equal or no segment's
\* number lies in both ranges (on a shared segment the later call's speed
\* limit stays); two Reposition calls do exactly when they name different
\* segment numbers, or the same point, or a number no segment has (on the
\* same segment the later call's point stays).
C8_OrderIndependence ==
    \A segs \in StoredSegments :
        /\ \A c1, c2 \in MarkCalls :
              (Marked(Marked(segs, c1), c2) = Marked(Marked(segs, c2), c1))
                 <=> (c1[3] = c2[3] \/ ~RangesShareSegment(segs, c1, c2))
        /\ \A r1, r2 \in RepositionCalls :
              (Moved(Moved(segs, r1), r2) = Moved(Moved(segs, r2), r1))
                 <=> \/ r1[1] # r2[1]
                     \/ r1[2] = r2[2]
                     \/ \A i \in 1..Len(segs) : segs[i].segment_number # r1[1]

\* C8 witness: a stored track on which two Mark-curve calls with different
\* speed limits and a Reposition have acted.
C8_Witness ==
    \E segs \in StoredSegments :
        \E i, j, k \in 1..Len(segs) :
            /\ segs[i].speed_limit = Present(3)
            /\ segs[j].speed_limit = Present(5)
            /\ segs[k].center_point = Vec(5, 5)

\* What is_curve reads as (a segment fresh from the Segmenter has no key).
IsCurve(segment) == Get(segment.is_curve, FALSE)

SameGeometry(before, after) ==
    /\ after.segment_number = before.segment_number
    /\ after.line_start = before.line_start
    /\ after.line_end = before.line_end
    /\ after.distance = before.distance

\* Between the registries before and after, everything but the segments
\* of session_id's track is the same, and no segment is added or removed.
OnlySegmentsOf(before, after, session_id) ==
    /\ DOMAIN after = DOMAIN before
    /\ \A h \in DOMAIN before :
          /\ h # session_id => after[h] = before[h]
          /\ [after[h] EXCEPT !.segment_divisions = <<>>]
                = [before[h] EXCEPT !.segment_divisions = <<>>]
          /\ Len(after[h].segment_divisions) = Len(before[h].segment_divisions)

MarkEffect(before, after, session_id, start_segment, end_segment, speed_limit) ==
    /\ OnlySegmentsOf(before, after, session_id)
    /\ session_id \in DOMAIN before =>
          \A i \in 1..Len(before[session_id].segment_divisions) :
              LET old == before[session_id].segment_divisions[i]
                  new == after[session_id].segment_divisions[i]
              IN  /\ SameGeometry(old, new)
                  /\ new.center_point = old.center_point
                  /\ IF start_segment <= old.segment_number
                          /\ old.segment_number <= end_segment
                     THEN /\ new.is_curve = Present(TRUE)
                          /\ new.speed_limit = Present(speed_limit)
                     ELSE /\ IsCurve(new) = IsCurve(old)
                          /\ new.speed_limit = old.speed_limit

\* C9: mark_curve, on every registry the application reaches and with any
\* arguments, sets is_curve and the speed limit on exactly the segments
\* numbered in [start, end]; the others keep their is_curve and
\* speed_limit; the count and every segment's number, center_point,
\* line_start, line_end and distance are unchanged.
C9_MarkCurveFrame ==
    \A session_id \in SessionIds, call \in MarkCalls :
        MarkEffect(track_generators,
                   mark_curve(track_generators, session_id, call[1], call[2], call[3]),
                   session_id, call[1], call[2], call[3])

\* C9 witness: a stored track of two segments, the first marked with speed
\* limit 5 by one call and the second left unmarked, without a speed limit.
C9_Witness ==
    \E segs \in StoredSegments :
        /\ Len(segs) = 2
        /\ segs[1].is_curve = Present(TRUE)
        /\ segs[1].speed_limit = Present(5)
        /\ segs[2].is_curve = Present(FALSE)
        /\ segs[2].speed_limit = Absent

UpdateEffect(before, after, session_id, segments) ==
    /\ OnlySegmentsOf(before, after, session_id)
    /\ session_id \in DOMAIN before =>
          \A i \in 1..Len(before[session_id].segment_divisions) :
              LET old == before[session_id].segment_divisions[i]
                  new == after[session_id].segment_divisions[i]
                  named == \E k \in 1..Len(segments) :
                              segments[k].keys /\ segments[k].id = old.segment_number
              IN  /\ SameGeometry(old, new)
                  /\ new.is_curve = old.is_curve
                  /\ new.speed_limit = old.speed_limit
                  /\ ~named => new.center_point = old.center_point
                  /\ (Len(segments) = 1 /\ named)
                        => new.center_point = segments[1].position

\* The update lists of the frame claim: the requests' own, and one that
\* moves a segment to a second point.
FrameUpdates ==
    ListsUpTo(SegmentUpdates, MaxUpdates)
        \cup {<<[id |-> c[1], position |-> c[2], keys |-> TRUE]>> : c \in RepositionCalls}

\* C10: update_segments, on every registry the application reaches, changes
\* only the center_point of the segments it names (to the given point):
\* their line_start, line_end, distance, number, is_curve and speed_limit,
\* every other segment and the count are unchanged; a number no segment has
\* changes nothing.
C10_RepositionFrame ==
    \A session_id \in SessionIds, segments \in FrameUpdates :
        UpdateEffect(track_generators,
                     update_segments(track_generators, session_id, segments),
                     session_id, segments)

\* C10 witness: a stored segment whose center_point was moved off its
\* cut-line's midpoint.
C10_Witness ==
    \E segs \in StoredSegments :
        \E i \in 1..Len(segs) :
            Add(segs[i].line_start, segs[i].line_end)
                # Add(segs[i].center_point, segs[i].center_point)

\* ------------------------------------------- claims: the cut-line geometry

Dot(p, q) == p[1] * q[1] + p[2] * q[2]

\* The centerline intervals (1-based index of their first point) whose arc
\* range contains the distance d.
IntervalsContaining(points, d) ==
    LET distances == Distances(points)
    IN  {j \in 1..(Len(points) - 1) : distances[j] <= d /\ d <= distances[j + 1]}

\* C11: for every segment the Segmenter returns, line_start and line_end are
\* each track_width/2 from center_point, line_start + line_end is twice
\* center_point, and the line is perpendicular to points[j+1] - points[j]
\* for the first interval j whose arc range contains the segment's distance,
\* an interval of non-zero length.
C11_CutLineGeometry ==
    SegmenterReturned
        => LET points == generator.centerline_points
               width == generator.track_width
           IN  \A i \in 1..Len(generator.segment_divisions) :
                 LET s == generator.segment_divisions[i]
                     hits == IntervalsContaining(points, s.distance)
                 IN  /\ 4 * DistSq(s.line_start, s.center_point) = width * width
                     /\ 4 * DistSq(s.line_end, s.center_point) = width * width
                     /\ Add(s.line_start, s.line_end) = Add(s.center_point, s.center_point)
                     /\ hits # {}
                     /\ LET j == CHOOSE j \in hits : \A k \in hits : j <= k
                            direction == Sub(points[j + 1], points[j])
                        IN  /\ direction # Vec(0, 0)
                            /\ Dot(Sub(s.line_end, s.line_start), direction) = 0

\* C11 witness: a returned segment on an oblique interval, at a sample where
\* the centerline turns, so that two intervals contain its arc distance.
C11_Witness ==
    /\ SegmenterReturned
    /\ \E i \in 1..Len(generator.segment_divisions) :
          LET s == generator.segment_divisions[i]
              hits == IntervalsContaining(generator.centerline_points, s.distance)
          IN  /\ Cardinality(hits) >= 2
              /\ s.line_start[1] # s.line_end[1]
              /\ s.line_start[2] # s.line_end[2]

\* ---------------------------------------------- claims: the fallback borders

\* generate_track_borders returned through _manual_offset_calculation.
FallbackReturned == BordersCalled /\ outcome.fallback /\ ~outcome.raised

HasConsecutiveDuplicates(points) ==
    \E i \in 1..(Len(points) - 1) : points[i] = points[i + 1]

\* Point i is equal to the point before or after it.
DuplicateAdjacent(points, i) ==
    \/ i > 1 /\ points[i] = points[i - 1]
    \/ i < Len(points) /\ points[i] = points[i + 1]

\* The points on either side of point i coincide (at the ends: point i and
\* its one neighbour).
NeighboursCoincide(points, i) ==
    IF i = 1 THEN points[2] = points[1]
    ELSE IF i = Len(points) THEN points[i] = points[i - 1]
    ELSE points[i + 1] = points[i - 1]

\* The centerline points, in order, whose index is not omitted.
KeptPoints(points, Omitted(_, _)) ==
    LET kept == SelectSeq([i \in 1..Len(points) |-> i],
                          LAMBDA i : ~Omitted(points, i))
    IN  [k \in 1..Len(kept) |-> points[kept[k]]]

\* The centerline points the border points of one side were offset from.
BorderOrigins(border) == [k \in 1..Len(border) |-> border[k].at]

\* C12 as stated: on a centerline with consecutive duplicates the fallback
\* omits the border point of index i exactly when point i is equal to a
\* neighbouring point.
C12_Original ==
    (FallbackReturned /\ HasConsecutiveDuplicates(generator.centerline_points))
        => /\ BorderOrigins(generator.left_border_points)
                = KeptPoints(generator.centerline_points, DuplicateAdjacent)
           /\ BorderOrigins(generator.right_border_points)
                = KeptPoints(generator.centerline_points, DuplicateAdjacent)

\* C12 amended: on a centerline with consecutive duplicates the fallback
\* returns without error and omits the border point of index i exactly when
\* the direction estimated at i has no length: the first point equal to the
\* second, the last equal to the one before it, or, inside, point i-1 equal
\* to point i+1.  An interior point equal to one neighbour only keeps its
\* border point; an interior point where the path doubles back loses it.
C12_FallbackOmissions ==
    (BordersCalled /\ outcome.fallback
        /\ HasConsecutiveDuplicates(generator.centerline_points))
        => /\ ~outcome.raised
           /\ BorderOrigins(generator.left_border_points)
                = KeptPoints(generator.centerline_points, NeighboursCoincide)
           /\ BorderOrigins(generator.right_border_points)
                = KeptPoints(generator.centerline_points, NeighboursCoincide)
           /\ \A k \in 1..Len(generator.left_border_points) :
                 /\ generator.left_border_points[k].along # Vec(0, 0)
                 /\ generator.right_border_points[k].along # Vec(0, 0)

\* C12 witness: the fallback returned for a centerline on which an interior
\* point repeats its predecessor and keeps its border point, and another
\* interior point, different from both neighbours, loses it.
C12_Witness ==
    /\ FallbackReturned
    /\ LET points == generator.centerline_points
       IN  \E i, j \in 2..(Len(points) - 1) :
              /\ points[i] = points[i - 1] /\ points[i + 1] # points[i - 1]
              /\ points[j] # points[j - 1] /\ points[j + 1] = points[j - 1]
    /\ Len(generator.left_border_points) < Len(generator.centerline_points)

\* C13: under the fallback, for a centerline with at least 2 distinct points
\* both border sequences are non-empty, of the same length, and no longer
\* than the centerline.
C13_FallbackNonEmpty ==
    (BordersCalled /\ outcome.fallback
        /\ Cardinality(DistinctPoints(generator.centerline_points)) >= 2)
        => /\ ~outcome.raised
           /\ generator.left_border_points # <<>>
           /\ generator.right_border_points # <<>>
           /\ Len(generator.left_border_points) = Len(generator.right_border_points)
           /\ Len(generator.left_border_points) <= Len(generator.centerline_points)
           /\ Len(generator.right_border_points) <= Len(generator.centerline_points)

\* C13 witness: the fallback returned for a centerline of two distinct
\* points, each sampled twice in a row, and skipped its first and last point.
C13_Witness ==
    /\ FallbackReturned
    /\ LET points == generator.centerline_points
       IN  /\ Len(points) = 4
           /\ Cardinality(DistinctPoints(points)) = 2
           /\ points[1] = points[2]
           /\ points[3] = points[4]
    /\ Len(generator.left_border_points) = 2

\* ------------------------------------------- claims: the straight line of 800

Cross(p, q) == p[1] * q[2] - p[2] * q[1]

\* The samples run along one straight line, each one ahead of the one before.
OpenStraightLine(points) ==
    /\ Len(points) >= 2
    /\ \A i \in 1..(Len(points) - 1) :
          LET step == Sub(points[i + 1], points[i])
              first == Sub(points[2], points[1])
          IN  /\ Cross(step, first) = 0
              /\ Dot(step, first) > 0

\* C14: for an open straight line of length 800, whatever the number of
\* samples, with segment_length 400 and track_width 200 the Segmenter
\* places and returns 3 segments, at distances 0, 400 and 800, numbered
\* 1, 2, 3, trims nothing, and segment 2 is centered on the line's midpoint.
C14_StraightLine800 ==
    (/\ SegmenterCalled
     /\ OpenStraightLine(generator.centerline_points)
     /\ TotalLength(generator.centerline_points) = 800
     /\ generator.segment_length = 400
     /\ generator.track_width = 200)
        => LET points == generator.centerline_points
               segs == generator.segment_divisions
           IN  /\ ~outcome.raised
               /\ ~removed
               /\ Len(placed) = 3
               /\ Len(segs) = 3
               /\ \A i \in 1..3 :
                     /\ segs[i].segment_number = i
                     /\ segs[i].distance = (i - 1) * 400
               /\ Add(segs[2].center_point, segs[2].center_point)
                     = Add(points[1], points[Len(points)])

\* C14 witness: the Segmenter returned for an oblique line of length 800
\* sampled unevenly, no sample at the midpoint.
C14_Witness ==
    /\ SegmenterReturned
    /\ generator.segment_length = 400
    /\ generator.track_width = 200
    /\ generator.centerline_points
          = <<Vec(0, 0), Vec(237, 316), Vec(243, 324), Vec(480, 640)>>
    /\ Len(generator.segment_divisions) = 3

\* -------------------------------------------- claims: the session handles

\* The track stored under upload k's session id is the one the last
\* successful generate request of upload k built.
HoldsOwnTrack(k) ==
    LET u == uploads[k]
        asked == u.generated[1]
    IN  /\ u.session_id \in DOMAIN track_generators
        /\ LET stored == track_generators[u.session_id]
           IN  /\ stored.centerline_points = FileSamples(u.filename)
               /\ stored.track_width = asked.track_width
               /\ stored.segment_length = asked.segment_length

\* C15 as stated: two different uploads never receive the same session id,
\* and a generate for one upload never replaces the stored track of another.
C15_Original ==
    /\ \A i, j \in DOMAIN uploads :
          i # j => uploads[i].session_id # uploads[j].session_id
    /\ \A k \in DOMAIN uploads :
          uploads[k].generated # Absent => HoldsOwnTrack(k)

\* The second upload's generate request replaced the track the first
\* upload's request had stored under the session id both were given.
C15_TrackReplaced ==
    /\ Len(uploads) = 2
    /\ uploads[1].session_id = uploads[2].session_id
    /\ uploads[1].generated # Absent
    /\ uploads[2].generated # Absent
    /\ ~HoldsOwnTrack(1)
    /\ HoldsOwnTrack(2)

====
